---------------------------- MODULE Spec2Model ----------------------------
(***************************************************************************)
(* A model of src/main.cpp: the StackBuffer type, Transform, TryTransform, *)
(* TryMultipleTransforms, MeasureTransform, MeasureAndReport and main.     *)
(*                                                                         *)
(* Three specifications share the module:                                  *)
(*   Spec      the program: main generates the test vectors and walks the  *)
(*             matrix of MeasureAndReport<TSize, method, handling> calls;  *)
(*   BufSpec   the StackBuffer<TSize> type on its own: the constructor,    *)
(*             the copy and move constructors and assignment operators,    *)
(*             for every capacity and input, the truncating ones included  *)
(*             (main never lets a truncating call happen);                 *)
(*   XfSpec    Transform and TryTransform on their own, for every          *)
(*             capacity, return method, handling mode and input.           *)
(* FairSpec is Spec with the fairness of a single thread that runs.        *)
(***************************************************************************)
EXTENDS Integers, Sequences, FiniteSets

VARIABLES
    \* ---- the program (Spec) ----
    pc,            \* where the single thread of main is
    s,             \* main's generation loop counter (line 231)
    test_vectors,  \* main's test_vectors (line 229)
    tv,            \* index of the test vector the range-for of line 235 is at
    pt,            \* index into Points of the MeasureAndReport call main is at
    vecSamples,    \* MeasureTransform's vecSamples (line 189)
    i,             \* TryMultipleTransforms' loop counter (line 176)
    result,        \* the temporary TryTransform returned, alive until the barrier has seen it
    nCalls,        \* TryTransform calls made by the current TryMultipleTransforms call
    nBarriers,     \* DoNotOptimize calls made by the current TryMultipleTransforms call
    raised,        \* whether Transform threw std::bad_alloc in the latest TryTransform call
    recovered,     \* whether TryTransform caught a bad_alloc during the current TryMultipleTransforms call
    ret,           \* MeasureTransform's local scaling: what TryMultipleTransforms returned (line 194)
    nanoseconds,   \* MeasureTransform's local nanoseconds (line 196)
    linesPrinted,  \* number of lines written to std::cout
    lastLine,      \* the line written last
    uncaught,      \* where the exception that ended the process was thrown
    \* ---- StackBuffer on its own (BufSpec) ----
    bTSize,        \* the capacity TSize of the instantiation
    bufs,          \* the StackBuffer objects alive, by slot
    bOp,           \* the operation applied last, with its operands
    bPc,           \* "ready", or "derailed" once undefined behaviour took control away
    \* ---- Transform and TryTransform on their own (XfSpec) ----
    xArgs,         \* template arguments and call arguments
    xT,            \* outcome of the Transform call
    xTry           \* outcome of the TryTransform call, per handling mode

progVars == <<pc, s, test_vectors, tv, pt, vecSamples, i, result, nCalls, nBarriers,
              raised, recovered, ret, nanoseconds, linesPrinted, lastLine, uncaught>>
bufVars == <<bTSize, bufs, bOp, bPc>>
xfVars == <<xArgs, xT, xTry>>
vars == <<progVars, bufVars, xfVars>>

----------------------------------------------------------------------------
(* Bounds of the model. *)

\* Iterations of TryMultipleTransforms' loop: stands for the 10000 of line 175.
scaling == 3
\* Samples MeasureTransform collects: stands for the 1000 of line 191.
SampleCount == 4
\* Test vectors main generates (sizes 1, 4, ..., MaxS^2): stands for the 32 of line 231.
MaxS == 2
\* Longest elapsed time, in nanoseconds, of one TryMultipleTransforms call.
MaxElapsed == 5
\* BufSpec, XfSpec: capacities 0..MaxTSize, inputs of 0..MaxLen bytes.
MaxTSize == 2
MaxLen == 3

----------------------------------------------------------------------------
(* Values. *)

\* std::byte holds 0..MaxByte (and uniform_dist( 0, 255 ), line 122).
MaxByte == 255
Byte == 0..MaxByte

\* enum class ReturnMethod { Array, Vector }
Array == 0
Vector == 1
\* enum class ExceptionHandling { Omit, Include }
Omit == 0
Include == 1

Min(a, b) == IF a < b THEN a ELSE b

Max(a, b) == IF a > b THEN a ELSE b

\* The array m_data of a StackBuffer<TSize> has TSize elements, of which only
\* those memcpy has written hold a value; every write starts at element 0, so
\* the written elements are a prefix of the array. m_data is modelled as that
\* prefix: the elements beyond it are indeterminate.

\* Storage of a StackBuffer<TSize> before its constructor body runs:
\* std::array<std::byte, TSize> is default-initialised, nothing is written.
Uninitialized(TSize) == <<>>

\* std::memcpy( dst, src, n ): the first n elements of dst become those of
\* src, the elements of dst beyond them are left as they are.
Memcpy(dst, src, n) ==
    [k \in 1..Max(Len(dst), n) |-> IF k <= n THEN src[k] ELSE dst[k]]

----------------------------------------------------------------------------
(* StackBuffer<TSize>. *)

StackBufferKeepsLength(TSize, buffer, length) ==
    [m_data   |-> Memcpy(Uninitialized(TSize), buffer, Min(TSize, length)),
     m_length |-> length]

\* StackBuffer( const std::byte *buffer, size_t length )
StackBuffer(TSize, buffer, length) ==
    LET m_length == Min(TSize, length)
    IN  [m_data   |-> Memcpy(Uninitialized(TSize), buffer, m_length),
         m_length |-> m_length]

\* StackBuffer( const StackBuffer &source )
CopyConstructed(TSize, source) ==
    [m_data   |-> Memcpy(Uninitialized(TSize), source.m_data, source.m_length),
     m_length |-> source.m_length]

\* StackBuffer( StackBuffer &&source )
MoveConstructed(TSize, source) ==
    [m_data   |-> Memcpy(Uninitialized(TSize), source.m_data, source.m_length),
     m_length |-> source.m_length]

\* The body of operator=( const StackBuffer &source ); self is *this before
\* the call, same is this == &source.
CopyAssigned(self, source, same) ==
    IF ~same
    THEN [m_data   |-> Memcpy(self.m_data, source.m_data, source.m_length),
          m_length |-> source.m_length]
    ELSE self

\* The body of operator=( StackBuffer &&source ).
MoveAssigned(self, source, same) ==
    IF ~same
    THEN [m_data   |-> Memcpy(self.m_data, source.m_data, source.m_length),
          m_length |-> source.m_length]
    ELSE self

\* Both assignment operators are declared to return StackBuffer & and flow
\* off their end without a return statement: undefined behaviour. A build
\* either happens to return to the caller with the body's effect in place
\* ("returns"), or treats the end of the function as unreachable and never
\* comes back to the caller ("derails"; g++ 12 does so from -O1 on).
MissingReturnOutcomes == {"returns", "derails"}


----------------------------------------------------------------------------
(* Transform and TryTransform. *)

\* std::variant<StackBuffer<TSize>, std::vector<std::byte>>: alt names the
\* alternative held, buf or vec holds it (the other field is not used).
NoBuffer == [m_data |-> <<>>, m_length |-> 0]
ArrayAlt(sb) == [alt |-> "StackBuffer", buf |-> sb, vec |-> <<>>]
VectorAlt(v) == [alt |-> "vector", buf |-> NoBuffer, vec |-> v]
NoValue == [alt |-> "none", buf |-> NoBuffer, vec |-> <<>>]

\* How a call ends: it returns a value, or std::bad_alloc leaves it.
Returned(value) == [exc |-> "none", value |-> value]
ThrownBadAlloc == [exc |-> "bad_alloc", value |-> NoValue]
\* Neither branch of an if/else-if chain taken: the function flows off its
\* end. No instantiation in the program gets here (both enums have exactly
\* the two enumerators tested).
FlowsOffTheEnd == [exc |-> "undefined", value |-> NoValue]

\* The allocation std::vector<std::byte>( buffer, buffer + length ) makes
\* may fail; a vector of no elements allocates nothing, and the Array method
\* never allocates (StackBuffer's constructor is noexcept, all inline).
AllocOutcomes(method, length) ==
    IF method = Vector /\ length > 0 THEN {TRUE, FALSE} ELSE {TRUE}

TransformTruncatesVector(TSize, method, buffer, length, alloc) ==
    IF method = Array
    THEN Returned(ArrayAlt(StackBuffer(TSize, buffer, length)))
    ELSE IF alloc
         THEN Returned(VectorAlt(SubSeq(buffer, 1, Min(TSize, length))))
         ELSE ThrownBadAlloc

\* Transform<TSize, TReturnMethod>( buffer, length ); alloc says whether the
\* allocation the call makes (if it makes one) succeeds.
Transform(TSize, method, buffer, length, alloc) ==
    IF method = Array
    THEN Returned(ArrayAlt(StackBuffer(TSize, buffer, length)))
    ELSE IF method = Vector
         THEN IF alloc
              THEN Returned(VectorAlt(SubSeq(buffer, 1, length)))
              ELSE ThrownBadAlloc
         ELSE FlowsOffTheEnd

TryTransformAlwaysFallsBack(TSize, method, handling, buffer, length, alloc) ==
    IF handling = Include
    THEN Returned(VectorAlt(<<>>))
    ELSE Transform(TSize, method, buffer, length, alloc)

TryTransformNoCatch(TSize, method, handling, buffer, length, alloc) ==
    Transform(TSize, method, buffer, length, alloc)

TryTransformCatchesAlways(TSize, method, handling, buffer, length, alloc) ==
    LET r == Transform(TSize, method, buffer, length, alloc)
    IN  IF r.exc = "bad_alloc" THEN Returned(VectorAlt(<<>>)) ELSE r

\* TryTransform<TSize, TReturnMethod, TExceptionHandling>( buffer, length )
TryTransform(TSize, method, handling, buffer, length, alloc) ==
    IF handling = Include
    THEN LET r == Transform(TSize, method, buffer, length, alloc)
         IN  IF r.exc = "bad_alloc" THEN Returned(VectorAlt(<<>>)) ELSE r
    ELSE IF handling = Omit
         THEN Transform(TSize, method, buffer, length, alloc)
         ELSE FlowsOffTheEnd

----------------------------------------------------------------------------
(* Inputs of BufSpec and XfSpec. *)

SampleBytes == {0, MaxByte}
\* Byte arrays of 0..MaxLen bytes.
Inputs == UNION {[1..n -> SampleBytes] : n \in 0..MaxLen}
TSizes == 0..MaxTSize

\* Nothing written to std::cout yet.
NoLine == [Data |-> 0, Buffer |-> 0, Duration |-> 0, Vector |-> 0, Exceptions |-> 0]

\* The program's variables, while StackBuffer or Transform is examined alone.
ProgIdle ==
    /\ pc = "idle" /\ s = 0 /\ test_vectors = <<>> /\ tv = 0 /\ pt = 0
    /\ vecSamples = <<>> /\ i = 0 /\ result = NoValue
    /\ nCalls = 0 /\ nBarriers = 0 /\ raised = FALSE /\ recovered = FALSE
    /\ ret = 0 /\ nanoseconds = 0
    /\ linesPrinted = 0 /\ lastLine = NoLine
    /\ uncaught = "none"

BufIdle == bTSize = 0 /\ bufs = <<>> /\ bPc = "idle"
           /\ bOp = [op |-> "none", dst |-> 0, src |-> 0, buffer |-> <<>>, length |-> 0]

NotCalled == [alloc |-> TRUE, out |-> [exc |-> "not_called", value |-> NoValue]]

XfIdle == /\ xArgs = [TSize |-> 0, method |-> Array, buffer |-> <<>>, length |-> 0]
          /\ xT = NotCalled
          /\ xTry = [h \in {Omit, Include} |-> NotCalled]

----------------------------------------------------------------------------
(* BufSpec: the operations of StackBuffer<bTSize> on the objects in bufs. *)

Slots == {1, 2}

Put(d, sb) == [k \in DOMAIN bufs \cup {d} |-> IF k = d THEN sb ELSE bufs[k]]

BufInit ==
    /\ ProgIdle /\ XfIdle
    /\ bTSize \in TSizes
    /\ bufs = <<>>
    /\ bOp = [op |-> "none", dst |-> 0, src |-> 0, buffer |-> <<>>, length |-> 0]
    /\ bPc = "ready"

\* StackBuffer<bTSize> d( buffer, length ), reading length bytes of buffer.
Construct(d) ==
    /\ bPc = "ready"
    /\ \E buffer \in Inputs : \E length \in 0..Len(buffer) :
        /\ bufs' = Put(d, StackBuffer(bTSize, buffer, length))
        /\ bOp' = [op |-> "construct", dst |-> d, src |-> d,
                   buffer |-> buffer, length |-> length]
    /\ UNCHANGED <<bTSize, bPc, progVars, xfVars>>

\* StackBuffer<bTSize> d( src )
CopyConstruct(d, src) ==
    /\ bPc = "ready" /\ src \in DOMAIN bufs /\ d # src
    /\ bufs' = Put(d, CopyConstructed(bTSize, bufs[src]))
    /\ bOp' = [op |-> "copy_construct", dst |-> d, src |-> src,
               buffer |-> <<>>, length |-> 0]
    /\ UNCHANGED <<bTSize, bPc, progVars, xfVars>>

\* StackBuffer<bTSize> d( std::move( src ))
MoveConstruct(d, src) ==
    /\ bPc = "ready" /\ src \in DOMAIN bufs /\ d # src
    /\ bufs' = Put(d, MoveConstructed(bTSize, bufs[src]))
    /\ bOp' = [op |-> "move_construct", dst |-> d, src |-> src,
               buffer |-> <<>>, length |-> 0]
    /\ UNCHANGED <<bTSize, bPc, progVars, xfVars>>

\* d = src
CopyAssign(d, src) ==
    /\ bPc = "ready" /\ d \in DOMAIN bufs /\ src \in DOMAIN bufs
    /\ bOp' = [op |-> "copy_assign", dst |-> d, src |-> src,
               buffer |-> <<>>, length |-> 0]
    /\ LET assigned == [bufs EXCEPT ![d] = CopyAssigned(bufs[d], bufs[src], d = src)]
       IN  \E outcome \in MissingReturnOutcomes :
            \/ outcome = "returns" /\ bufs' = assigned /\ bPc' = "ready"
            \/ outcome = "derails" /\ bufs' \in {bufs, assigned} /\ bPc' = "derailed"
    /\ UNCHANGED <<bTSize, progVars, xfVars>>

\* d = std::move( src )
MoveAssign(d, src) ==
    /\ bPc = "ready" /\ d \in DOMAIN bufs /\ src \in DOMAIN bufs
    /\ bOp' = [op |-> "move_assign", dst |-> d, src |-> src,
               buffer |-> <<>>, length |-> 0]
    /\ LET assigned == [bufs EXCEPT ![d] = MoveAssigned(bufs[d], bufs[src], d = src)]
       IN  \E outcome \in MissingReturnOutcomes :
            \/ outcome = "returns" /\ bufs' = assigned /\ bPc' = "ready"
            \/ outcome = "derails" /\ bufs' \in {bufs, assigned} /\ bPc' = "derailed"
    /\ UNCHANGED <<bTSize, progVars, xfVars>>

BufNext ==
    \/ \E d \in Slots : Construct(d)
    \/ \E d, src \in Slots : CopyConstruct(d, src)
    \/ \E d, src \in Slots : MoveConstruct(d, src)
    \/ \E d, src \in Slots : CopyAssign(d, src)
    \/ \E d, src \in Slots : MoveAssign(d, src)

BufSpec == BufInit /\ [][BufNext]_vars

----------------------------------------------------------------------------
(* XfSpec: one Transform call and one TryTransform call per handling mode, *)
(* all on the same template arguments and the same (buffer, length).       *)

XfInit ==
    /\ ProgIdle /\ BufIdle
    /\ \E TSize \in TSizes, method \in {Array, Vector}, buffer \in Inputs :
        \E length \in 0..Len(buffer) :
            xArgs = [TSize |-> TSize, method |-> method,
                     buffer |-> buffer, length |-> length]
    /\ xT = NotCalled
    /\ xTry = [h \in {Omit, Include} |-> NotCalled]

CallTransform ==
    /\ xT = NotCalled
    /\ \E alloc \in AllocOutcomes(xArgs.method, xArgs.length) :
        xT' = [alloc |-> alloc,
               out |-> Transform(xArgs.TSize, xArgs.method,
                                 xArgs.buffer, xArgs.length, alloc)]
    /\ UNCHANGED <<xArgs, xTry, progVars, bufVars>>

CallTryTransform(handling) ==
    /\ xTry[handling] = NotCalled
    /\ \E alloc \in AllocOutcomes(xArgs.method, xArgs.length) :
        xTry' = [xTry EXCEPT ![handling] =
                    [alloc |-> alloc,
                     out |-> TryTransform(xArgs.TSize, xArgs.method, handling,
                                          xArgs.buffer, xArgs.length, alloc)]]
    /\ UNCHANGED <<xArgs, xT, progVars, bufVars>>

XfNext ==
    \/ CallTransform
    \/ \E handling \in {Omit, Include} : CallTryTransform(handling)

XfSpec == XfInit /\ [][XfNext]_vars


----------------------------------------------------------------------------
(* The program: main and the functions it calls. *)

Point(TSize, method, handling) ==
    [TSize |-> TSize, method |-> method, handling |-> handling]

\* The MeasureAndReport instantiations main calls for each test vector, in
\* the order of lines 237-258.
Points ==
    << Point(1, Array, Include),    Point(1, Vector, Include),
       Point(4, Array, Include),    Point(4, Vector, Include),
       Point(10, Array, Include),   Point(10, Vector, Include),
       Point(64, Array, Include),   Point(64, Vector, Include),
       Point(64, Array, Omit),      Point(64, Vector, Omit),
       Point(128, Array, Include),  Point(128, Vector, Include),
       Point(256, Array, Include),  Point(256, Vector, Include),
       Point(512, Array, Include),  Point(512, Vector, Include),
       Point(1024, Array, Include), Point(1024, Vector, Include),
       Point(2048, Array, Include), Point(2048, Vector, Include),
       Point(4096, Array, Include), Point(4096, Vector, Include) >>

\* Values std::random_device hands GenerateData as the engine's seed. The
\* program never branches on a byte's value, so the driver is followed along
\* one stream per length; BufSpec and XfSpec range over the buffers' contents.
Seeds == {0}

\* GenerateData( length ): exactly length bytes, each in 0..255. The engine
\* and the distribution are the standard library's; a linear stream per seed
\* stands for their output (the program never looks at a byte's value).
GenerateData(length, seed) ==
    [k \in 1..length |-> (seed + 37 * k) % (MaxByte + 1)]

\* The test of line 214: the data would not fit into the array.
SkipsWhenEqual(TSize, size) == TSize <= size
Skips(TSize, size) == TSize < size

\* The loop test of line 176.
LoopContinuesOnceMore(k) == k <= scaling
LoopContinues(k) == k < scaling

\* The loop test of line 191.
StillCollecting(samples) == Len(samples) < SampleCount

\* nanoseconds / scaling (line 197): integer division of the tick count.
PerCall(ns, count) == ns \div count

RECURSIVE Insert(_, _)
Insert(x, sorted) ==
    IF sorted = <<>> THEN <<x>>
    ELSE IF x <= Head(sorted) THEN <<x>> \o sorted
    ELSE <<Head(sorted)>> \o Insert(x, Tail(sorted))

RECURSIVE SortAscending(_)
\* std::sort( vecSamples.begin(), vecSamples.end()) (line 199)
SortAscending(samples) ==
    IF samples = <<>> THEN <<>>
    ELSE Insert(Head(samples), SortAscending(Tail(samples)))

LowerMiddle(samples) == samples[(Len(samples) - 1) \div 2 + 1]
\* vecSamples[ vecSamples.size() / 2 ] (line 202); sequences count from 1.
Median(samples) == samples[Len(samples) \div 2 + 1]

\* operator<< of a bool without boolalpha.
BoolDigit(b) == IF b THEN 1 ELSE 0

\* static_cast< uint32_t >( TExceptionHandling ): the enumerator's value,
\* which is its position in the enum's declaration.
EnumeratorAsUint32(handling) ==
    CASE handling = Omit -> 0
      [] handling = Include -> 1

\* The line of lines 218-221 for a point, a test vector and the tuple
\* MeasureTransform returned.
ReportLine(point, vecData, testResult) ==
    [Data       |-> Len(vecData),
     Buffer     |-> point.TSize,
     Duration   |-> testResult[1],
     Vector     |-> BoolDigit(testResult[2]),
     Exceptions |-> EnumeratorAsUint32(point.handling)]

Init ==
    /\ BufIdle /\ XfIdle
    /\ pc = "generate" /\ s = 1 /\ test_vectors = <<>> /\ tv = 0 /\ pt = 0
    /\ vecSamples = <<>> /\ i = 0 /\ result = NoValue
    /\ nCalls = 0 /\ nBarriers = 0 /\ raised = FALSE /\ recovered = FALSE
    /\ ret = 0 /\ nanoseconds = 0
    /\ linesPrinted = 0 /\ lastLine = NoLine
    /\ uncaught = "none"

driverVars == <<i, result, nCalls, nBarriers, raised, recovered>>
sampleVars == <<vecSamples, ret, nanoseconds>>
outVars == <<linesPrinted, lastLine>>

\* main, lines 231-232: one more test vector.
Generate ==
    /\ pc = "generate" /\ s <= MaxS
    /\ \E seed \in Seeds :
        test_vectors' = Append(test_vectors, GenerateData(s * s, seed))
    /\ s' = s + 1
    /\ UNCHANGED <<pc, tv, pt, driverVars, sampleVars, outVars, uncaught, bufVars, xfVars>>

\* main, line 235: the generation loop is over, the range-for begins.
BeginBenchmarks ==
    /\ pc = "generate" /\ s > MaxS
    /\ IF test_vectors = <<>>
       THEN pc' = "exit" /\ tv' = 1 /\ pt' = 1
       ELSE pc' = "call" /\ tv' = 1 /\ pt' = 1
    /\ UNCHANGED <<s, test_vectors, driverVars, sampleVars, outVars, uncaught, bufVars, xfVars>>

\* MeasureAndReport returns to main: on to the next call of the loop body,
\* the next test vector, or return 0.
ReturnToMain ==
    IF pt < Len(Points)
    THEN pc' = "call" /\ pt' = pt + 1 /\ tv' = tv
    ELSE IF tv < Len(test_vectors)
         THEN pc' = "call" /\ pt' = 1 /\ tv' = tv + 1
         ELSE pc' = "exit" /\ pt' = 1 /\ tv' = tv + 1

\* MeasureAndReport, lines 214-215: the data does not fit, return.
SkipPoint ==
    /\ pc = "call"
    /\ Skips(Points[pt].TSize, Len(test_vectors[tv]))
    /\ ReturnToMain
    /\ UNCHANGED <<s, test_vectors, driverVars, sampleVars, outVars, uncaught, bufVars, xfVars>>

\* MeasureAndReport calls MeasureTransform, lines 189-190: vecSamples is
\* created and reserve allocates its storage, which may fail; nothing catches
\* that bad_alloc.
BeginMeasure ==
    /\ pc = "call"
    /\ ~Skips(Points[pt].TSize, Len(test_vectors[tv]))
    /\ vecSamples' = <<>>
    /\ \E reserved \in BOOLEAN :
        \/ reserved /\ pc' = "collect" /\ uncaught' = uncaught
        \/ ~reserved /\ pc' = "terminated" /\ uncaught' = "reserve"
    /\ UNCHANGED <<s, test_vectors, tv, pt, driverVars, ret, nanoseconds, outVars, bufVars, xfVars>>

\* MeasureTransform, lines 191-194: one more sample is needed; the clock is
\* read and TryMultipleTransforms is entered.
BeginSample ==
    /\ pc = "collect" /\ StillCollecting(vecSamples)
    /\ pc' = "try"
    /\ i' = 0 /\ result' = NoValue /\ nCalls' = 0 /\ nBarriers' = 0
    /\ raised' = FALSE /\ recovered' = FALSE
    /\ ret' = 0 /\ nanoseconds' = 0
    /\ UNCHANGED <<s, test_vectors, tv, pt, vecSamples, outVars, uncaught, bufVars, xfVars>>

\* TryMultipleTransforms, line 178: the call of TryTransform. An exception
\* that leaves TryTransform meets no handler in TryMultipleTransforms,
\* MeasureTransform, MeasureAndReport or main: std::terminate.
CallTryTransformInLoop ==
    /\ pc = "try" /\ LoopContinues(i)
    /\ nCalls' = nCalls + 1
    /\ \E alloc \in AllocOutcomes(Points[pt].method, Len(test_vectors[tv])) :
        LET P == Points[pt]
            vecData == test_vectors[tv]
            inner == Transform(P.TSize, P.method, vecData, Len(vecData), alloc)
            out == TryTransform(P.TSize, P.method, P.handling,
                                vecData, Len(vecData), alloc)
        IN  /\ raised' = (inner.exc = "bad_alloc")
            /\ \/ /\ out.exc = "none"
                  /\ result' = out.value
                  /\ recovered' = (recovered \/ inner.exc = "bad_alloc")
                  /\ pc' = "barrier"
                  /\ uncaught' = uncaught
               \/ /\ out.exc # "none"
                  /\ result' = NoValue
                  /\ recovered' = recovered
                  /\ pc' = "terminated"
                  /\ uncaught' = "Transform"
    /\ UNCHANGED <<s, test_vectors, tv, pt, i, nBarriers, sampleVars, outVars, bufVars, xfVars>>

\* TryMultipleTransforms, lines 176-179: DoNotOptimize sees the temporary,
\* the temporary is destroyed, ++i.
DoNotOptimize ==
    /\ pc = "barrier"
    /\ nBarriers' = nBarriers + 1
    /\ result' = NoValue
    /\ raised' = FALSE
    /\ i' = i + 1
    /\ pc' = "try"
    /\ UNCHANGED <<s, test_vectors, tv, pt, nCalls, recovered, sampleVars, outVars, uncaught, bufVars, xfVars>>

\* TryMultipleTransforms returns scaling (line 180); MeasureTransform reads
\* the clock again and appends the time per call (lines 195-197).
EndSample ==
    /\ pc = "try" /\ ~LoopContinues(i)
    /\ ret' = scaling
    /\ \E elapsed \in 0..MaxElapsed :
        /\ nanoseconds' = elapsed
        /\ vecSamples' = Append(vecSamples, PerCall(elapsed, ret'))
    /\ pc' = "collect"
    /\ UNCHANGED <<s, test_vectors, tv, pt, driverVars, outVars, uncaught, bufVars, xfVars>>

EndCollectingReturnsUnsorted ==
    /\ pc = "collect" /\ ~StillCollecting(vecSamples)
    /\ pc' = "done"
    /\ UNCHANGED <<s, test_vectors, tv, pt, driverVars, sampleVars, outVars, uncaught, bufVars, xfVars>>

\* MeasureTransform, line 191: the loop test fails, enough samples.
EndCollecting ==
    /\ pc = "collect" /\ ~StillCollecting(vecSamples)
    /\ pc' = "sort"
    /\ UNCHANGED <<s, test_vectors, tv, pt, driverVars, sampleVars, outVars, uncaught, bufVars, xfVars>>

\* MeasureTransform, line 199.
Sort ==
    /\ pc = "sort"
    /\ vecSamples' = SortAscending(vecSamples)
    /\ pc' = "done"
    /\ UNCHANGED <<s, test_vectors, tv, pt, driverVars, ret, nanoseconds, outVars, uncaught, bufVars, xfVars>>

\* MeasureTransform returns the tuple of line 202, MeasureAndReport prints
\* the line (218-221) and returns; the locals of both are gone.
Report ==
    /\ pc = "done"
    /\ LET P == Points[pt]
           testResult == <<Median(vecSamples), P.method = Vector>>
       IN  lastLine' = ReportLine(P, test_vectors[tv], testResult)
    /\ linesPrinted' = linesPrinted + 1
    /\ vecSamples' = <<>> /\ ret' = 0 /\ nanoseconds' = 0
    /\ i' = 0 /\ result' = NoValue /\ nCalls' = 0 /\ nBarriers' = 0
    /\ raised' = FALSE /\ recovered' = FALSE
    /\ ReturnToMain
    /\ UNCHANGED <<s, test_vectors, uncaught, bufVars, xfVars>>

Next ==
    \/ Generate
    \/ BeginBenchmarks
    \/ SkipPoint
    \/ BeginMeasure
    \/ BeginSample
    \/ CallTryTransformInLoop
    \/ DoNotOptimize
    \/ EndSample
    \/ EndCollecting
    \/ Sort
    \/ Report

Spec == Init /\ [][Next]_vars

\* One thread, nothing to wait for: a step that can be taken is taken.
FairSpec == Spec /\ WF_vars(Next)

----------------------------------------------------------------------------
(* What the claims speak of. *)

\* The test vector v fits the capacity of point p.
Fits(v, p) == Points[p].TSize >= Len(test_vectors[v])

\* The calls of MeasureAndReport that have returned: <<test vector, point>>.
Completed ==
    {q \in (1..Len(test_vectors)) \X (1..Len(Points)) :
        q[1] < tv \/ (q[1] = tv /\ q[2] < pt)}

FittingAmong(v, points) == Cardinality({p \in points : Fits(v, p)})

RECURSIVE FittingUpTo(_)
FittingUpTo(v) ==
    IF v = 0 THEN 0 ELSE FittingUpTo(v - 1) + FittingAmong(v, 1..Len(Points))

\* The number of calls that have returned and whose test vector fits.
CompletedFitting ==
    IF tv > Len(test_vectors)
    THEN FittingUpTo(Len(test_vectors))
    ELSE FittingUpTo(tv - 1) + FittingAmong(tv, 1..(pt - 1))

MainLoopRunning == pc \notin {"idle", "generate"}

\* A trial (one MeasureTransform call) is under way.
Collecting == pc \in {"collect", "try", "barrier"}
InTrial == Collecting \/ pc \in {"sort", "done"}

Ascending(samples) ==
    \A j \in 1..(Len(samples) - 1) : samples[j] <= samples[j + 1]

Occurrences(x, samples) == Cardinality({j \in 1..Len(samples) : samples[j] = x})

SameElements(a, b) ==
    /\ Len(a) = Len(b)
    /\ \A j \in 1..Len(a) : Occurrences(a[j], a) = Occurrences(a[j], b)

\* Two Transform Results agree: the same alternative, length and bytes.
SameResult(a, b) ==
    /\ a.alt = b.alt
    /\ a.alt = "vector" =>
        /\ Len(a.vec) = Len(b.vec)
        /\ \A k \in 1..Len(a.vec) : a.vec[k] = b.vec[k]
    /\ a.alt = "StackBuffer" =>
        /\ a.buf.m_length = b.buf.m_length
        /\ \A k \in 1..a.buf.m_length : a.buf.m_data[k] = b.buf.m_data[k]

----------------------------------------------------------------------------
(* The claims. *)

\* C1: of the MeasureAndReport calls that have returned, those whose test
\* vector is longer than the capacity printed nothing and ran no measurement
\* (whatever the return method), and each of the others printed exactly one
\* line, with Data = the vector's length, Buffer = the capacity, Vector = 1
\* iff the method is Vector and Exceptions = 1 iff the handling is Include.
C1_SkippedOrOneLine ==
    /\ [](MainLoopRunning =>
            /\ linesPrinted = CompletedFitting
            /\ (InTrial \/ pc = "terminated") => Fits(tv, pt))
    /\ [][linesPrinted' # linesPrinted =>
            /\ linesPrinted' = linesPrinted + 1
            /\ Fits(tv, pt)
            /\ <<tv', pt'>> # <<tv, pt>>
            /\ lastLine'.Data = Len(test_vectors[tv])
            /\ lastLine'.Buffer = Points[pt].TSize
            /\ lastLine'.Vector \in {0, 1}
            /\ lastLine'.Vector = 1 <=> Points[pt].method = Vector
            /\ lastLine'.Exceptions \in {0, 1}
            /\ lastLine'.Exceptions = 1 <=> Points[pt].handling = Include]_vars
    /\ [][lastLine' # lastLine => linesPrinted' # linesPrinted]_vars

\* main has returned; some calls were skipped, the others printed.
C1_Witness ==
    /\ pc = "exit"
    /\ linesPrinted > 0
    /\ \E q \in Completed : ~Fits(q[1], q[2]) /\ Points[q[2]].method = Vector
    /\ \E q \in Completed : ~Fits(q[1], q[2]) /\ Points[q[2]].method = Array

\* C2: MeasureTransform sorts and reports only once it holds exactly
\* SampleCount samples; sorting reorders them ascending; and the duration
\* reported is the element at 0-based index SampleCount / 2 of the sorted
\* samples (the upper middle one when SampleCount is even).
C2_AllSamplesThenUpperMedian ==
    /\ [](pc \in {"sort", "done"} => Len(vecSamples) = SampleCount)
    /\ [][pc = "sort" /\ pc' = "done" =>
            Ascending(vecSamples') /\ SameElements(vecSamples, vecSamples')]_vars
    /\ [][pc = "done" /\ pc' # "done" =>
            /\ Ascending(vecSamples)
            /\ linesPrinted' = linesPrinted + 1
            /\ lastLine'.Duration = vecSamples[SampleCount \div 2 + 1]]_vars

\* Sorted samples whose two middle elements differ: the upper middle one is
\* neither the lower middle one nor their (integer) mean.
C2_Witness ==
    /\ pc = "done"
    /\ vecSamples[SampleCount \div 2 + 1] > vecSamples[SampleCount \div 2]
    /\ Median(vecSamples) = vecSamples[SampleCount \div 2 + 1]

\* C3: a StackBuffer of capacity C constructed from (buffer, L) has length L
\* and the L bytes of the source when L <= C, and length C and the first C
\* bytes when L > C; no StackBuffer has a length above its capacity.
C3_ConstructorTruncates ==
    /\ \A d \in DOMAIN bufs : bufs[d].m_length <= bTSize
    /\ bOp.op = "construct" =>
        LET sb == bufs[bOp.dst]
        IN  /\ bOp.length <= bTSize => sb.m_length = bOp.length
            /\ bOp.length > bTSize => sb.m_length = bTSize
            /\ Len(sb.m_data) >= sb.m_length
            /\ \A k \in 1..sb.m_length : sb.m_data[k] = bOp.buffer[k]

\* A construction that truncates, to a non-empty buffer.
C3_Witness ==
    /\ bOp.op = "construct"
    /\ bOp.length > bTSize
    /\ bufs[bOp.dst].m_length = bTSize
    /\ bTSize > 0

\* C4: a copy construction, copy assignment, move construction or move
\* assignment from a source completes and leaves the destination with the
\* length and the bytes of a buffer constructed directly from the source's
\* bytes, and the source as it was.
C4_CopyAndMoveMatchDirectConstruction ==
    [][(bOp'.op \in {"copy_construct", "copy_assign", "move_construct", "move_assign"}
            /\ bufVars' # bufVars) =>
        LET source == bufs[bOp'.src]
            direct == StackBuffer(bTSize, source.m_data, source.m_length)
        IN  /\ bPc' = "ready"
            /\ bufs'[bOp'.dst].m_length = direct.m_length
            /\ \A k \in 1..direct.m_length :
                    bufs'[bOp'.dst].m_data[k] = direct.m_data[k]
            /\ bufs'[bOp'.src].m_length = source.m_length
            /\ \A k \in 1..source.m_length :
                    bufs'[bOp'.src].m_data[k] = source.m_data[k]]_vars

\* C5: with the Vector method and no allocation failure, Transform returns
\* a vector of exactly length bytes, equal to the source's, whatever the
\* capacity.
C5_VectorHoldsWholeInput ==
    (xT # NotCalled /\ xArgs.method = Vector /\ xT.alloc) =>
        /\ xT.out.exc = "none"
        /\ xT.out.value.alt = "vector"
        /\ Len(xT.out.value.vec) = xArgs.length
        /\ \A k \in 1..xArgs.length : xT.out.value.vec[k] = xArgs.buffer[k]

\* A vector longer than the capacity.
C5_Witness ==
    /\ xT # NotCalled /\ xArgs.method = Vector /\ xT.alloc
    /\ xArgs.length > xArgs.TSize
    /\ Len(xT.out.value.vec) = xArgs.length

\* C6: when Transform does not fail, TryTransform returns the same result
\* with handling Include as with handling Omit.
C6_IncludeEqualsOmitOnSuccess ==
    (/\ xTry[Include] # NotCalled /\ xTry[Omit] # NotCalled
     /\ xTry[Include].alloc /\ xTry[Omit].alloc) =>
        /\ xTry[Include].out.exc = "none"
        /\ xTry[Omit].out.exc = "none"
        /\ SameResult(xTry[Include].out.value, xTry[Omit].out.value)

\* Both calls made, without failure, on an input that is not empty.
C6_Witness ==
    /\ xTry[Include] # NotCalled /\ xTry[Omit] # NotCalled
    /\ xTry[Include].alloc /\ xTry[Omit].alloc
    /\ xArgs.length > 0 /\ xArgs.TSize > 0
    /\ xTry[Include].out.value.alt = "StackBuffer"

\* C7: with handling Include, a bad_alloc thrown by Transform does not leave
\* TryTransform: the call returns an empty vector, the process goes on, and
\* a TryMultipleTransforms call in which that happened still makes all its
\* scaling iterations.
C7_IncludeRecoversWithEmptyVector ==
    /\ (raised /\ Points[pt].handling = Include) =>
        /\ pc = "barrier"
        /\ uncaught = "none"
        /\ result.alt = "vector"
        /\ Len(result.vec) = 0
    /\ recovered => Points[pt].handling = Include /\ InTrial
    /\ (recovered /\ pc \notin {"try", "barrier"}) =>
            nCalls = scaling /\ nBarriers = scaling

\* A call of TryMultipleTransforms has returned although its first
\* TryTransform call had to recover.
C7_Witness ==
    /\ recovered /\ pc = "collect"
    /\ nCalls = scaling
    /\ Len(vecSamples) > 0

\* C8: with handling Omit, a bad_alloc thrown by Transform is caught by
\* nobody: the process is terminated, no line is printed for the call under
\* way, and nothing is printed afterwards.
C8_OmitPropagatesAndTerminates ==
    /\ []((raised /\ MainLoopRunning /\ Points[pt].handling = Omit) =>
            /\ pc = "terminated"
            /\ uncaught = "Transform"
            /\ linesPrinted = CompletedFitting)
    /\ [][pc = "terminated" => pc' = "terminated" /\ UNCHANGED outVars]_vars

\* The process was terminated by Transform's bad_alloc after lines had been
\* printed for earlier calls.
C8_Witness ==
    /\ pc = "terminated" /\ uncaught = "Transform"
    /\ Points[pt].handling = Omit
    /\ linesPrinted > 0

\* C9: a TryMultipleTransforms call that returns has called TryTransform
\* exactly scaling times on the same unchanged test vector, has passed each
\* result through DoNotOptimize before making the next call, and returns
\* scaling; the sample MeasureTransform appends is the elapsed time divided
\* by that count (integer division).
C9_ScalingCallsEachThroughBarrier ==
    /\ [](pc = "try" => nCalls = nBarriers /\ nCalls = i /\ result = NoValue)
    /\ [](pc = "barrier" => nCalls = nBarriers + 1 /\ result # NoValue)
    /\ []((pc = "collect" /\ vecSamples # <<>>) =>
            /\ nCalls = scaling /\ nBarriers = scaling /\ ret = scaling
            /\ vecSamples[Len(vecSamples)] * ret <= nanoseconds
            /\ nanoseconds < (vecSamples[Len(vecSamples)] + 1) * ret)
    /\ [][(InTrial /\ InTrial') => UNCHANGED <<test_vectors, tv, pt>>]_vars

\* A call has returned and the division had a remainder to drop.
C9_Witness ==
    /\ pc = "collect" /\ vecSamples # <<>>
    /\ nCalls = scaling
    /\ nanoseconds % scaling # 0
    /\ vecSamples[Len(vecSamples)] > 0

\* The way a trial may be cut short: an allocation failure that nothing
\* catches, thrown by MeasureTransform's reserve or, with handling Omit and
\* method Vector, by Transform.
CutShortByUncaughtBadAlloc ==
    /\ pc = "terminated"
    /\ \/ uncaught = "reserve"
       \/ /\ uncaught = "Transform"
          /\ Points[pt].handling = Omit
          /\ Points[pt].method = Vector

\* C10 as stated: no trial that was started is cut short.
C10_NoTrialIsCutShort ==
    ~(pc = "terminated" /\ uncaught \in {"reserve", "Transform"})

\* C10, amended: a trial that was started goes through collecting, sorting
\* and done in that order and its line is printed, unless an allocation
\* failure that nothing catches terminates the process; in every case the
\* trial ends.
C10_CompletesUnlessBadAllocTerminates ==
    /\ [][/\ (pc = "call" /\ pc' # "call") =>
                pc' \in {"collect", "exit"} \/ CutShortByUncaughtBadAlloc'
          /\ Collecting => Collecting' \/ pc' = "sort" \/ CutShortByUncaughtBadAlloc'
          /\ (pc = "sort" /\ pc' # "sort") =>
                pc' = "done" /\ Len(vecSamples) = SampleCount
          /\ (pc = "done" /\ pc' # "done") =>
                pc' \in {"call", "exit"} /\ linesPrinted' = linesPrinted + 1]_vars
    /\ InTrial ~> (pc \in {"call", "exit"} \/ CutShortByUncaughtBadAlloc)

\* A trial whose handling is Omit and whose method is Vector has run to
\* completion.
C10_Witness ==
    /\ pc = "done"
    /\ Points[pt].handling = Omit /\ Points[pt].method = Vector
    /\ Len(vecSamples) = SampleCount

============================================================================
